---------------------------- MODULE Spec2Model ----------------------------
(*************************************************************************)
(* Startup provisioning of the TTS bot (src/startup.rs):                   *)
(*   get_webhooks, fetch_json, fetch_voices, fetch_translation_languages, *)
(*   prepare_gcloud_voices, send_startup_message.                         *)
(* Strings are sequences of one-character strings, so that splitting,     *)
(* lowercasing and truncation are computed character by character.        *)
(*************************************************************************)
EXTENDS Integers, Sequences, FiniteSets, TLC

VARIABLES
    \* prepare_gcloud_voices
    raw_map,        \* the Vec<GoogleVoice> argument
    voice_idx,      \* number of records the for loop has consumed
    cleaned_map,    \* {lang_accent: {variant: gender}}
    voice_pc,       \* "idle" | "loop" | "returned"
    \* get_webhooks
    webhooks_raw,   \* WebhookConfigRaw { logs, errors, dm_logs }
    fut,            \* the three get_webhook futures held by try_join!
    net,            \* the webhook lookup request of each future
    woken,          \* the task has been woken and will be polled
    poll_start,     \* the branch the last poll of try_join! began with
    wh_pc,          \* "idle" | "joining" | "returned"
    wh_result,      \* what get_webhooks returned
    log,            \* lines printed so far
    \* send_startup_message
    posted,         \* webhook executions issued
    startup_reply,  \* what log_webhook.execute resolved to
    startup_pc,     \* "idle" | "executing" | "returned" | "panicked"
    startup_result, \* what send_startup_message returned
    \* fetch_json and its two callers
    fetch_call,     \* the caller and its arguments
    requests,       \* HTTP requests issued
    response,       \* status and body received so far
    decodes,        \* number of times a body was handed to the JSON decoder
    fetch_pc,       \* "idle" | "called" | "sending" | "reading" | "returned"
    fetch_result    \* what the caller returned

voice_vars == <<raw_map, voice_idx, cleaned_map, voice_pc>>
wh_vars == <<webhooks_raw, fut, net, woken, poll_start, wh_pc, wh_result>>
startup_vars == <<posted, startup_reply, startup_pc, startup_result>>
fetch_vars == <<fetch_call, requests, response, decodes, fetch_pc, fetch_result>>

vars == <<voice_vars, wh_vars, log, startup_vars, fetch_vars>>

---------------------------------------------------------------------------
(* Option<T> *)
None == [some |-> FALSE]
Some(x) == [some |-> TRUE, val |-> x]

(* Result<T>, and the slot of a value not yet produced *)
Ok(v) == [tag |-> "Ok", val |-> v]
Err(e) == [tag |-> "Err", val |-> e]
NoValue == [tag |-> "NoValue", val |-> "none"]

(* An empty BTreeMap *)
EmptyMap == [k \in {} |-> 0]

\* BTreeMap::insert: the new value replaces an old one under the same key
MapInsert(m, k, v) == [x \in DOMAIN m \cup {k} |-> IF x = k THEN v ELSE m[x]]

\* prepare_gcloud_voices is not running
IdleVoices ==
    /\ raw_map = <<>>
    /\ voice_idx = 0
    /\ cleaned_map = EmptyMap
    /\ voice_pc = "idle"

\* no response received yet
NoResponse == [status |-> 0, body |-> [shape |-> "none", value |-> <<>>]]

\* no fetch is running
IdleFetch ==
    /\ fetch_call = [kind |-> "none", tts_service |-> [path |-> "", query |-> <<>>],
                     auth_key |-> None, mode |-> "gTTS"]
    /\ requests = <<>>
    /\ response = NoResponse
    /\ decodes = 0
    /\ fetch_pc = "idle"
    /\ fetch_result = NoValue

---------------------------------------------------------------------------
(* Bounds of the model *)
MaxRecords == 2

(* FixedString<u8> holds at most u8::MAX bytes *)
U8_MAX == 255

---------------------------------------------------------------------------
(* String helpers *)

Hyphen == "-"

\* index of the first occurrence of c in s, 0 when absent
RECURSIVE FindFrom(_, _, _)
FindFrom(s, c, i) ==
    IF i > Len(s) THEN 0
    ELSE IF s[i] = c THEN i
    ELSE FindFrom(s, c, i + 1)

Find(s, c) == FindFrom(s, c, 1)

SeqTail(s, i) == SubSeq(s, i, Len(s))

\* str::splitn(n, sep): at most n components, the last one holding the rest
RECURSIVE splitn(_, _, _)
splitn(s, n, sep) ==
    IF n = 0 THEN <<>>
    ELSE IF n = 1 THEN <<s>>
    ELSE LET i == Find(s, sep)
         IN  IF i = 0 THEN <<s>>
             ELSE <<SubSeq(s, 1, i - 1)>> \o splitn(SeqTail(s, i + 1), n - 1, sep)

\* Iterator::nth(k), zero based
nth(parts, k) == IF Len(parts) > k THEN Some(parts[k + 1]) ELSE None

\* str::split_once(sep)
split_once(s, sep) ==
    LET i == Find(s, sep)
    IN  IF i = 0 THEN None
        ELSE Some(<<SubSeq(s, 1, i - 1), SeqTail(s, i + 1)>>)

\* the sequences over S of length at most n
RECURSIVE SeqsUpTo(_, _)
SeqsUpTo(S, n) ==
    IF n = 0 THEN {<<>>}
    ELSE LET shorter == SeqsUpTo(S, n - 1)
         IN  shorter \cup {Append(q, e) : q \in {r \in shorter : Len(r) = n - 1}, e \in S}

\* FixedString::<u8>::from_str_trunc
from_str_trunc(s) == IF Len(s) <= U8_MAX THEN s ELSE SubSeq(s, 1, U8_MAX)

---------------------------------------------------------------------------
(* get_webhooks *)

MaxWebhookId == 2
MaxMessageId == 2

WebhookIds == 1..MaxWebhookId
MessageIds == 1..MaxMessageId

\* the fields of WebhookConfigRaw and WebhookConfig, in the order try_join! lists them
Branches == <<"logs", "errors", "dm_logs">>
Fields == {"logs", "errors", "dm_logs"}

\* A reqwest::Url: a webhook URL .../webhooks/{id}/{token}, or some other URL
Urls == [shape : {"webhooks"}, id : WebhookIds] \cup [shape : {"channels"}, id : {1}]

\* serenity::parse_webhook(&url): the webhook id of a webhook URL
parse_webhook(url) == IF url.shape = "webhooks" THEN Some(url.id) ELSE None

\* what the lookup of webhook `id` for branch b may resolve to
Replies(id, b) == {Ok([id |-> id]), Err([kind |-> "Http", branch |-> b])}

IdleNet == [st |-> "idle", reply |-> NoValue]
Unpolled == [st |-> "unpolled", out |-> NoValue]

\* One poll of a get_webhook future: [fut, net]
\*   let (webhook_id, _) = serenity::parse_webhook(&url).try_unwrap()?;
\*   anyhow::Ok(webhook_id.to_webhook(http).await?)
PollWebhook(b, f, n, url) ==
    IF f.st = "unpolled" THEN
        IF parse_webhook(url).some
        THEN [fut |-> [st |-> "awaiting", out |-> NoValue],
              net |-> [st |-> "inflight", reply |-> NoValue]]
        ELSE [fut |-> [st |-> "done", out |-> Err([kind |-> "NoneError", branch |-> b])],
              net |-> n]
    ELSE IF f.st = "awaiting" /\ n.st = "replied"
    THEN [fut |-> [st |-> "done", out |-> n.reply], net |-> n]
    ELSE [fut |-> f, net |-> n]

\* the order in which one poll of try_join! visits its branches
PollOrder(start) == [k \in 1..3 |-> Branches[((start + k - 1) % 3) + 1]]

\* the branches polled in turn, stopping at the first one that is ready with an Err
RECURSIVE PollBranches(_, _, _)
PollBranches(fs, ns, order) ==
    IF order = <<>> THEN [fut |-> fs, net |-> ns, err |-> NoValue]
    ELSE LET b == Head(order)
             r == PollWebhook(b, fs[b], ns[b], webhooks_raw[b])
             fs2 == [fs EXCEPT ![b] = r.fut]
             ns2 == [ns EXCEPT ![b] = r.net]
         IN  IF r.fut.st = "done" /\ r.fut.out.tag = "Err"
             THEN [fut |-> fs2, net |-> ns2, err |-> r.fut.out]
             ELSE PollBranches(fs2, ns2, Tail(order))

\* every branch polled, none stopping the poll
RECURSIVE PollEvery(_, _, _)
PollEvery(fs, ns, order) ==
    IF order = <<>> THEN [fut |-> fs, net |-> ns]
    ELSE LET b == Head(order)
             r == PollWebhook(b, fs[b], ns[b], webhooks_raw[b])
         IN  PollEvery([fs EXCEPT ![b] = r.fut], [ns EXCEPT ![b] = r.net], Tail(order))

\* a variant of TryJoin that collects whatever the three branches produced
TryJoin_Lenient(fs, ns, start) ==
    LET r == PollEvery(fs, ns, PollOrder(start))
    IN  [fut |-> r.fut, net |-> r.net,
         ready |-> IF \A b \in Fields : r.fut[b].st = "done"
                   THEN Ok([b \in Fields |-> r.fut[b].out.val])
                   ELSE NoValue]

\* a variant of TryJoin that reports an error only once no branch is pending
TryJoin_WaitAll(fs, ns, start) ==
    LET r == PollEvery(fs, ns, PollOrder(start))
        failed == {b \in Fields : r.fut[b].st = "done" /\ r.fut[b].out.tag = "Err"}
    IN  [fut |-> r.fut, net |-> r.net,
         ready |-> IF \E b \in Fields : r.fut[b].st # "done" THEN NoValue
                   ELSE IF failed # {} THEN r.fut[CHOOSE b \in failed : TRUE].out
                   ELSE Ok([b \in Fields |-> r.fut[b].out.val])]

\* tokio::try_join!(...): Err of the first failed branch met, Ok of all three
\* outputs once none is pending, otherwise still pending
TryJoin(fs, ns, start) ==
    LET r == PollBranches(fs, ns, PollOrder(start))
    IN  [fut |-> r.fut, net |-> r.net,
         ready |-> IF r.err.tag = "Err" THEN r.err
                   ELSE IF \A b \in Fields : r.fut[b].st = "done"
                   THEN Ok([b \in Fields |-> r.fut[b].out.val])
                   ELSE NoValue]

\* Ok(WebhookConfig { logs, errors, dm_logs })
WebhookConfig(joined) ==
    [logs |-> joined["logs"], errors |-> joined["errors"], dm_logs |-> joined["dm_logs"]]

\* the value get_webhooks returns for a ready try_join!: `?`, then the config
GetWebhooksReturn(ready) ==
    IF ready.tag = "Err" THEN ready ELSE Ok(WebhookConfig(ready.val))

IdleWebhooks ==
    /\ webhooks_raw = [b \in Fields |-> [shape |-> "channels", id |-> 1]]
    /\ fut = [b \in Fields |-> Unpolled]
    /\ net = [b \in Fields |-> IdleNet]
    /\ woken = FALSE
    /\ poll_start = 0
    /\ wh_pc = "idle"
    /\ wh_result = NoValue

IdleStartup ==
    /\ posted = <<>>
    /\ startup_reply = NoValue
    /\ startup_pc = "idle"
    /\ startup_result = NoValue

InitWebhooks ==
    /\ webhooks_raw \in [Fields -> Urls]
    /\ fut = [b \in Fields |-> Unpolled]
    /\ net = [b \in Fields |-> IdleNet]
    /\ woken = TRUE
    /\ poll_start = 0
    /\ wh_pc = "joining"
    /\ wh_result = NoValue
    /\ log = <<>>
    /\ IdleStartup
    /\ IdleVoices
    /\ IdleFetch

\* The task is polled: try_join! polls its branches, and when it is ready
\* get_webhooks runs to its end.  The branch a poll begins with depends on the
\* tokio version (always the first, or rotating), so any of the three may be it.
GetWebhooksPoll ==
    /\ wh_pc = "joining"
    /\ woken
    /\ \E start \in 0..2 :
          LET r == TryJoin(fut, net, start)
          IN  /\ poll_start' = start
              /\ fut' = r.fut
              /\ net' = r.net
              /\ IF r.ready.tag = "NoValue"
                 THEN UNCHANGED <<wh_pc, wh_result, log>>
                 ELSE /\ wh_pc' = "returned"
                      /\ wh_result' = GetWebhooksReturn(r.ready)
                      /\ log' = IF r.ready.tag = "Ok"
                                THEN Append(log, "Fetched webhooks")
                                ELSE log
    /\ woken' = FALSE
    /\ UNCHANGED <<webhooks_raw, voice_vars, startup_vars, fetch_vars>>

\* The lookup of one branch's webhook resolves and wakes the task
WebhookReply ==
    /\ wh_pc = "joining"
    /\ \E b \in Fields :
          /\ net[b].st = "inflight"
          /\ \E reply \in Replies(parse_webhook(webhooks_raw[b]).val, b) :
                net' = [net EXCEPT ![b] = [st |-> "replied", reply |-> reply]]
    /\ woken' = TRUE
    /\ UNCHANGED <<webhooks_raw, fut, poll_start, wh_pc, wh_result, log,
                   voice_vars, startup_vars, fetch_vars>>

---------------------------------------------------------------------------
(* send_startup_message *)

StartupContent == "**TTS Bot is starting up**"

\* what log_webhook.execute(http, true, builder) may resolve to
ExecuteReplies ==
    {Err([kind |-> "Http"]), Ok(None)} \cup {Ok(Some([id |-> m])) : m \in MessageIds}

\* a variant of StartupOutcome that turns a missing message into an error value
StartupOutcome_TryUnwrap(reply) ==
    IF reply.tag = "Err" THEN [pc |-> "returned", result |-> reply]
    ELSE IF ~reply.val.some
    THEN [pc |-> "returned", result |-> Err([kind |-> "NotificationDeliveryError"])]
    ELSE [pc |-> "returned", result |-> Ok(reply.val.val.id)]

\* startup_message = execute(..).await?;  Ok(startup_message.unwrap().id)
StartupOutcome(reply) ==
    IF reply.tag = "Err" THEN [pc |-> "returned", result |-> reply]
    ELSE IF ~reply.val.some THEN [pc |-> "panicked", result |-> NoValue]
    ELSE [pc |-> "returned", result |-> Ok(reply.val.val.id)]

\* send_startup_message(http, &webhooks.logs) up to its await
StartupExecute ==
    /\ wh_pc = "returned"
    /\ wh_result.tag = "Ok"
    /\ startup_pc = "idle"
    /\ posted' = Append(posted, [webhook |-> wh_result.val.logs.id,
                                 wait |-> TRUE, content |-> StartupContent])
    /\ startup_pc' = "executing"
    /\ UNCHANGED <<startup_reply, startup_result, wh_vars, log, voice_vars, fetch_vars>>

\* the execution resolves and send_startup_message runs to its end
StartupResume ==
    /\ startup_pc = "executing"
    /\ \E reply \in ExecuteReplies :
          /\ startup_reply' = reply
          /\ startup_pc' = StartupOutcome(reply).pc
          /\ startup_result' = StartupOutcome(reply).result
    /\ UNCHANGED <<posted, wh_vars, log, voice_vars, fetch_vars>>

NextWebhooks == GetWebhooksPoll \/ WebhookReply \/ StartupExecute \/ StartupResume

SpecWebhooks == InitWebhooks /\ [][NextWebhooks]_vars

---------------------------------------------------------------------------
(* fetch_json, fetch_voices, fetch_translation_languages *)

MaxPairs == 2

UpperCase == <<"A", "B", "C", "D", "E", "F", "G", "H", "I", "J", "K", "L", "M",
               "N", "O", "P", "Q", "R", "S", "T", "U", "V", "W", "X", "Y", "Z">>
LowerCase == <<"a", "b", "c", "d", "e", "f", "g", "h", "i", "j", "k", "l", "m",
               "n", "o", "p", "q", "r", "s", "t", "u", "v", "w", "x", "y", "z">>

\* u8::to_ascii_lowercase
to_ascii_lowercase(c) ==
    LET i == Find(UpperCase, c) IN IF i = 0 THEN c ELSE LowerCase[i]

\* a variant of make_ascii_lowercase that leaves the code as it came
make_ascii_lowercase_Noop(lang) == lang

\* String::make_ascii_lowercase
make_ascii_lowercase(lang) == [i \in 1..Len(lang) |-> to_ascii_lowercase(lang[i])]

\* |(mut lang, name)| { lang.make_ascii_lowercase(); (lang.trunc_into(), name) }
LangEntry(pair) == <<from_str_trunc(make_ascii_lowercase(pair[1])), pair[2]>>

\* Iterator::collect into a BTreeMap: the pairs inserted in order
RECURSIVE CollectMap(_, _)
CollectMap(m, pairs) ==
    IF pairs = <<>> THEN m
    ELSE LET e == LangEntry(Head(pairs))
         IN  CollectMap(MapInsert(m, e[1], e[2]), Tail(pairs))

\* the (code, displayName) pairs a provider may send
LangCodes == {<<"E", "N">>, <<"e", "n">>, <<"P", "T", "-", "b", "r">>}
LangNames == {"English", "English (dup)"}
RawLangs == SeqsUpTo(LangCodes \X LangNames, MaxPairs)

TTSMode == {"gTTS", "gCloud"}
AuthKeys == {None, Some("key")}
BaseUrls == {[path |-> "", query |-> <<>>], [path |-> "tts", query |-> <<"v=1">>]}

\* HTTP statuses a final response may carry
Statuses == {200, 204, 304, 404, 500}

\* response bodies: no JSON at all, a voice list, a list of language pairs
Bodies ==
    {[shape |-> "garbage", value |-> <<>>], [shape |-> "voices", value |-> <<"v1">>]}
    \cup {[shape |-> "pairs", value |-> l] : l \in RawLangs}

\* auth_key.unwrap_or("")
unwrap_or_empty(auth_key) == IF auth_key.some THEN auth_key.val ELSE ""

\* tts_service.set_path("voices"); query_pairs_mut().append_pair("mode", mode)
\*     .append_pair("raw", "true")
VoicesUrl(tts_service, mode) ==
    [path |-> "voices", query |-> tts_service.query \o <<"mode=" \o mode, "raw=true">>]

\* tts_service.set_path("translation_languages")
TranslationUrl(tts_service) ==
    [path |-> "translation_languages", query |-> tts_service.query]

\* reqwest.get(url).header("Authorization", auth_header)
GetRequest(url, auth_header) ==
    [method |-> "GET", url |-> url, authorization |-> auth_header]

\* a variant of error_for_status that rejects nothing
error_for_status_Never(status) == FALSE

\* Response::error_for_status: an error for a client or server error status
error_for_status(status) == status >= 400 /\ status <= 599

\* Response::json::<T>(): the body decoded into the shape the caller expects
json(kind, body) ==
    IF kind = "voices" /\ body.shape = "voices" THEN Ok(body.value)
    ELSE IF kind = "translation_languages" /\ body.shape = "pairs" THEN Ok(body.value)
    ELSE Err([kind |-> "Decode"])

\* the line a caller prints after fetch_json returned Ok
LoadedLine(call) ==
    IF call.kind = "voices"
    THEN "Loaded voices for TTS Mode: " \o call.mode
    ELSE "Loaded DeepL translation languages"

\* what a caller returns for the Ok value of fetch_json
CallerValue(call, value) ==
    IF call.kind = "voices" THEN value ELSE CollectMap(EmptyMap, value)

InitFetch ==
    /\ fetch_call \in [kind : {"voices", "translation_languages"},
                       tts_service : BaseUrls, auth_key : AuthKeys, mode : TTSMode]
    /\ requests = <<>>
    /\ response = NoResponse
    /\ decodes = 0
    /\ fetch_pc = "called"
    /\ fetch_result = NoValue
    /\ log = <<>>
    /\ IdleVoices
    /\ IdleWebhooks
    /\ IdleStartup

\* fetch_voices up to the send().await of fetch_json
FetchVoices ==
    /\ fetch_pc = "called"
    /\ fetch_call.kind = "voices"
    /\ requests' = Append(requests,
                          GetRequest(VoicesUrl(fetch_call.tts_service, fetch_call.mode),
                                     unwrap_or_empty(fetch_call.auth_key)))
    /\ fetch_pc' = "sending"
    /\ UNCHANGED <<fetch_call, response, decodes, fetch_result, log,
                   voice_vars, wh_vars, startup_vars>>

\* fetch_translation_languages up to the send().await of fetch_json
FetchTranslationLanguages ==
    /\ fetch_pc = "called"
    /\ fetch_call.kind = "translation_languages"
    /\ requests' = Append(requests,
                          GetRequest(TranslationUrl(fetch_call.tts_service),
                                     unwrap_or_empty(fetch_call.auth_key)))
    /\ fetch_pc' = "sending"
    /\ UNCHANGED <<fetch_call, response, decodes, fetch_result, log,
                   voice_vars, wh_vars, startup_vars>>

\* send().await? fails: no response arrives
SendFails ==
    /\ fetch_pc = "sending"
    /\ fetch_pc' = "returned"
    /\ fetch_result' = Err([kind |-> "Request"])
    /\ UNCHANGED <<fetch_call, requests, response, decodes, log,
                   voice_vars, wh_vars, startup_vars>>

\* send().await? yields a response; .error_for_status()? ; .json() starts reading
ResponseArrives ==
    /\ fetch_pc = "sending"
    /\ \E status \in Statuses :
          /\ response' = [response EXCEPT !.status = status]
          /\ IF error_for_status(status)
             THEN /\ fetch_pc' = "returned"
                  /\ fetch_result' = Err([kind |-> "Status"])
             ELSE /\ fetch_pc' = "reading"
                  /\ UNCHANGED fetch_result
    /\ UNCHANGED <<fetch_call, requests, decodes, log, voice_vars, wh_vars, startup_vars>>

\* .json().await? resolves; on Ok the caller prints its line and returns the value
BodyArrives ==
    /\ fetch_pc = "reading"
    /\ \E body \in Bodies :
          LET res == json(fetch_call.kind, body)
          IN  /\ response' = [response EXCEPT !.body = body]
              /\ IF res.tag = "Ok"
                 THEN /\ log' = Append(log, LoadedLine(fetch_call))
                      /\ fetch_result' = Ok(CallerValue(fetch_call, res.val))
                 ELSE /\ UNCHANGED log
                      /\ fetch_result' = res
    /\ decodes' = decodes + 1
    /\ fetch_pc' = "returned"
    /\ UNCHANGED <<fetch_call, requests, voice_vars, wh_vars, startup_vars>>

NextFetch ==
    FetchVoices \/ FetchTranslationLanguages \/ SendFails \/ ResponseArrives \/ BodyArrives

SpecFetch == InitFetch /\ [][NextFetch]_vars

---------------------------------------------------------------------------
(* Input alphabet of the voice catalogue *)

EN == <<"e", "n">>
US == <<"U", "S">>
EN_US == <<"e", "n", "-", "U", "S">>
FR_FR == <<"f", "r", "-", "F", "R">>
STANDARD == <<"S", "t", "a", "n", "d", "a", "r", "d">>
WAVENET == <<"W", "a", "v", "e", "n", "e", "t">>

Dash(a, b) == a \o <<Hyphen>> \o b

\* "{lang}-{region}-{Type}-{X}"
MkName(lang, region, type, x) == Dash(Dash(Dash(lang, region), type), x)

Langs == {EN}
Regions == {US}
Types == {STANDARD, WAVENET}
Xs == {<<"A">>, <<"F">>}

FormNames == {MkName(l, r, t, x) : l \in Langs, r \in Regions, t \in Types, x \in Xs}

\* fewer than three components
ShortNames == {EN, Dash(EN, US)}

\* three components without a second part, and a variant that itself holds a hyphen
OddNames == {Dash(Dash(EN, US), STANDARD),
             MkName(EN, US, STANDARD, Dash(WAVENET, <<"F">>))}

Names == FormNames \cup ShortNames \cup OddNames

\* the language codes and gender the records of the catalogue carry
Attributes == {<<(<<EN_US>>), "FEMALE">>, <<(<<FR_FR, EN_US>>), "MALE">>,
               <<(<<FR_FR, EN_US>>), "FEMALE">>}

\* GoogleVoice { name, ssml_gender, language_codes }: the struct is declared in
\* tts_core; the earlier version of prepare_gcloud_voices destructures
\* language_codes as [language], so a decoded record holds a first language code.
GoogleVoice ==
    {[name |-> n, language_codes |-> a[1], ssml_gender |-> a[2]] :
        n \in Names, a \in Attributes}

---------------------------------------------------------------------------
(* prepare_gcloud_voices *)

\* a variant of TypeAndVariant that takes the second component onwards
TypeAndVariant_Second(name) == nth(splitn(name, 2, Hyphen), 1)

\* gvoice.name.splitn(3, '-').nth(2)
TypeAndVariant(name) == nth(splitn(name, 3, Hyphen), 2)

\* a variant of FinalVariant that never strips the type
FinalVariant_Keep(type_and_variant) == type_and_variant

\* a variant of FinalVariant that strips any type, as the commented-out version did
FinalVariant_Strip(type_and_variant) ==
    LET so == split_once(type_and_variant, Hyphen)
    IN  IF so.some THEN so.val[2] ELSE type_and_variant

\* if let Some(("Standard", variant_code)) = type_and_variant.split_once('-')
FinalVariant(type_and_variant) ==
    LET so == split_once(type_and_variant, Hyphen)
    IN  IF so.some /\ so.val[1] = STANDARD
        THEN so.val[2]
        ELSE type_and_variant

\* let language = &gvoice.language_codes[0]
Language(gvoice) == gvoice.language_codes[1]

\* a variant of VoiceInsert that keeps the value already stored (entry().or_insert)
VoiceInsert_KeepFirst(cm, language, variant, gender) ==
    LET lk == from_str_trunc(language)
        vk == from_str_trunc(variant)
        sub == IF lk \in DOMAIN cm THEN cm[lk] ELSE EmptyMap
    IN  MapInsert(cm, lk, IF vk \in DOMAIN sub THEN sub ELSE MapInsert(sub, vk, gender))

\* a variant of VoiceInsert that starts a fresh sub-map on every record
VoiceInsert_Fresh(cm, language, variant, gender) ==
    MapInsert(cm, from_str_trunc(language),
              MapInsert(EmptyMap, from_str_trunc(variant), gender))

\* cleaned_map.entry(language).or_insert_with(BTreeMap::new).insert(variant, gender)
VoiceInsert(cm, language, variant, gender) ==
    LET lk == from_str_trunc(language)
        sub == IF lk \in DOMAIN cm THEN cm[lk] ELSE EmptyMap
    IN  MapInsert(cm, lk, MapInsert(sub, from_str_trunc(variant), gender))

\* One iteration of the for loop
LoopBody(cm, gvoice) ==
    LET tv == TypeAndVariant(gvoice.name)
    IN  IF ~tv.some THEN cm
        ELSE VoiceInsert(cm, Language(gvoice), FinalVariant(tv.val), gvoice.ssml_gender)

InitVoices ==
    /\ raw_map \in SeqsUpTo(GoogleVoice, MaxRecords)
    /\ voice_idx = 0
    /\ cleaned_map = EmptyMap
    /\ voice_pc = "loop"
    /\ IdleWebhooks
    /\ IdleStartup
    /\ IdleFetch
    /\ log = <<>>

\* for gvoice in raw_map { ... }
VoiceLoop ==
    /\ voice_pc = "loop"
    /\ voice_idx < Len(raw_map)
    /\ cleaned_map' = LoopBody(cleaned_map, raw_map[voice_idx + 1])
    /\ voice_idx' = voice_idx + 1
    /\ UNCHANGED <<raw_map, voice_pc, wh_vars, log, startup_vars, fetch_vars>>

\* the trailing expression: cleaned_map
VoiceReturn ==
    /\ voice_pc = "loop"
    /\ voice_idx = Len(raw_map)
    /\ voice_pc' = "returned"
    /\ UNCHANGED <<raw_map, voice_idx, cleaned_map, wh_vars, log, startup_vars, fetch_vars>>

NextVoices == VoiceLoop \/ VoiceReturn

SpecVoices == InitVoices /\ [][NextVoices]_vars

---------------------------------------------------------------------------
(* Properties of prepare_gcloud_voices *)

RECURSIVE CountFrom(_, _, _)
CountFrom(s, c, i) ==
    IF i > Len(s) THEN 0
    ELSE (IF s[i] = c THEN 1 ELSE 0) + CountFrom(s, c, i + 1)

\* number of '-'-delimited components of a name
Components(name) == CountFrom(name, Hyphen, 1) + 1

WellFormed(gvoice) == Components(gvoice.name) >= 3

\* the records the loop has consumed
Consumed == 1..voice_idx

\* variant parts a name of the form {lang}-{region}-Standard-{X} may carry
XsAny == Xs \cup {Dash(WAVENET, <<"F">>)}

HasForm(name, type, x) ==
    \E l \in Langs, r \in Regions : name = MkName(l, r, type, x)

Stored(language, variant) ==
    /\ language \in DOMAIN cleaned_map
    /\ variant \in DOMAIN cleaned_map[language]

ExampleA ==
    [name |-> MkName(EN, US, STANDARD, <<"A">>), language_codes |-> <<EN_US>>,
     ssml_gender |-> "FEMALE"]

ExampleF ==
    [name |-> MkName(EN, US, WAVENET, <<"F">>), language_codes |-> <<EN_US>>,
     ssml_gender |-> "FEMALE"]

\* C3: a consumed record named {lang}-{region}-Standard-{X} is stored under the
\* variant key {X} of its first language code, not under Standard-{X}; right
\* after the record is consumed that entry holds the record's gender.
C3_StandardStripped ==
    \A i \in Consumed : \A x \in XsAny :
        HasForm(raw_map[i].name, STANDARD, x) =>
            /\ Stored(raw_map[i].language_codes[1], x)
            /\ i = voice_idx =>
                 cleaned_map[raw_map[i].language_codes[1]][x] = raw_map[i].ssml_gender
            /\ (\A j \in Consumed : raw_map[j].name \in {raw_map[i].name} \cup ShortNames)
                 => ~Stored(raw_map[i].language_codes[1], Dash(STANDARD, x))

C3_Witness ==
    /\ voice_pc = "returned"
    /\ raw_map = <<ExampleA>>
    /\ cleaned_map = (EN_US :> (<<"A">> :> "FEMALE"))

\* C4: a consumed record named {lang}-{region}-{Type}-{X} with Type # Standard is
\* stored under the variant key {Type}-{X}, and the two-record example yields
\* exactly {"en-US": {"A": FEMALE, "Wavenet-F": FEMALE}}.
C4_TypeRetained ==
    /\ \A i \in Consumed : \A t \in Types \ {STANDARD} : \A x \in Xs :
          HasForm(raw_map[i].name, t, x) =>
              /\ Stored(raw_map[i].language_codes[1], Dash(t, x))
              /\ i = voice_idx =>
                   cleaned_map[raw_map[i].language_codes[1]][Dash(t, x)]
                       = raw_map[i].ssml_gender
              /\ (\A j \in Consumed : raw_map[j].name \in {raw_map[i].name} \cup ShortNames)
                   => ~Stored(raw_map[i].language_codes[1], x)
    /\ (voice_pc = "returned" /\ raw_map = <<ExampleA, ExampleF>>) =>
          cleaned_map =
              (EN_US :> (<<"A">> :> "FEMALE" @@ Dash(WAVENET, <<"F">>) :> "FEMALE"))

C4_Witness ==
    /\ voice_pc = "returned"
    /\ raw_map = <<ExampleA, ExampleF>>
    /\ DOMAIN cleaned_map[EN_US] = {<<"A">>, Dash(WAVENET, <<"F">>)}

\* the loop run as a function, over a list of records
RECURSIVE Normalize(_, _)
Normalize(cm, records) ==
    IF records = <<>> THEN cm
    ELSE Normalize(LoopBody(cm, Head(records)), Tail(records))

\* C5: a record whose name has fewer than 3 components is skipped: the map built
\* from the consumed records is the map built from them with those records removed,
\* and the loop goes on to the records after it.
C5_MalformedSkipped ==
    /\ cleaned_map =
          Normalize(EmptyMap, SelectSeq(SubSeq(raw_map, 1, voice_idx), WellFormed))
    /\ voice_pc = "returned" => voice_idx = Len(raw_map)
    /\ (\A i \in Consumed : ~WellFormed(raw_map[i])) => cleaned_map = EmptyMap

C5_Witness ==
    /\ voice_pc = "returned"
    /\ Len(raw_map) = 2
    /\ ~WellFormed(raw_map[1])
    /\ WellFormed(raw_map[2])
    /\ DOMAIN cleaned_map = {raw_map[2].language_codes[1]}

Accepted == {i \in Consumed : WellFormed(raw_map[i])}
KeyL(i) == raw_map[i].language_codes[1]
KeyV(i) == FinalVariant(TypeAndVariant(raw_map[i].name).val)
Writers(language, variant) == {i \in Accepted : KeyL(i) = language /\ KeyV(i) = variant}
LastWriter(language, variant) ==
    CHOOSE i \in Writers(language, variant) : \A j \in Writers(language, variant) : j <= i

\* C6: the map holds (L, V) -> G exactly when the last accepted record with first
\* language code L and normalized variant V has gender G; the language keys are
\* the first language codes of the accepted records.
C6_LastWriteWins ==
    /\ DOMAIN cleaned_map = {KeyL(i) : i \in Accepted}
    /\ \A language \in DOMAIN cleaned_map :
          /\ DOMAIN cleaned_map[language] = {KeyV(i) : i \in {j \in Accepted : KeyL(j) = language}}
          /\ \A variant \in DOMAIN cleaned_map[language] :
                cleaned_map[language][variant]
                    = raw_map[LastWriter(language, variant)].ssml_gender

C6_Witness ==
    /\ voice_pc = "returned"
    /\ Len(raw_map) = 2
    /\ Accepted = {1, 2}
    /\ KeyL(1) = KeyL(2)
    /\ KeyV(1) = KeyV(2)
    /\ raw_map[1].ssml_gender = "MALE"
    /\ raw_map[2].ssml_gender = "FEMALE"
    /\ raw_map[1].language_codes = <<FR_FR, EN_US>>
    /\ raw_map[1].name # raw_map[2].name
    /\ cleaned_map = (FR_FR :> (KeyV(1) :> "FEMALE"))

\* the (Type, X) pair of a name of the form {lang}-{region}-{Type}-{X} whose four
\* parts are non-empty and hyphen-free
TypeX(name) == {tx \in Types \X Xs : HasForm(name, tx[1], tx[2])}
InForm(i) == TypeX(raw_map[i].name) # {}
TypeXOf(i) == CHOOSE tx \in TypeX(raw_map[i].name) : TRUE

\* C10: two consumed records of the same first language code with names of that
\* form and distinct (Type, X) pairs are stored under distinct variant keys, both
\* present; when every consumed record of a language has that form, the language
\* holds as many variants as there are distinct (Type, X) pairs.
C10_NoCollision ==
    /\ \A i, j \in Consumed :
          (InForm(i) /\ InForm(j) /\ KeyL(i) = KeyL(j) /\ TypeXOf(i) # TypeXOf(j)) =>
              /\ KeyV(i) # KeyV(j)
              /\ Stored(KeyL(i), KeyV(i))
              /\ Stored(KeyL(j), KeyV(j))
    /\ \A language \in {KeyL(i) : i \in Consumed} :
          LET of_language == {i \in Consumed : KeyL(i) = language}
          IN  (\A i \in of_language : InForm(i)) =>
                  Cardinality(DOMAIN cleaned_map[language])
                      = Cardinality({TypeXOf(i) : i \in of_language})

C10_Witness ==
    /\ voice_pc = "returned"
    /\ Len(raw_map) = 2
    /\ InForm(1) /\ InForm(2)
    /\ KeyL(1) = KeyL(2)
    /\ TypeXOf(1)[1] # TypeXOf(2)[1]
    /\ TypeXOf(1)[2] = TypeXOf(2)[2]
    /\ Cardinality(DOMAIN cleaned_map[KeyL(1)]) = 2

---------------------------------------------------------------------------
(* Properties of get_webhooks *)

\* the branch's URL is no webhook URL, or its lookup resolved to an error
BranchFailed(b) ==
    \/ ~parse_webhook(webhooks_raw[b]).some
    \/ net[b].st = "replied" /\ net[b].reply.tag = "Err"

\* the branch's lookup resolved to a webhook
BranchSucceeded(b) == net[b].st = "replied" /\ net[b].reply.tag = "Ok"

SeenOk(b) == fut[b].st = "done" /\ fut[b].out.tag = "Ok"
SeenErr(b) == fut[b].st = "done" /\ fut[b].out.tag = "Err"

\* C1: get_webhooks returns a WebhookConfig only when all three branches
\* succeeded, each field then holding the webhook of its own URL; when any
\* branch has failed the result is an error, and nothing is returned before.
C1_AllOrNothing ==
    /\ wh_pc # "returned" => wh_result.tag = "NoValue"
    /\ wh_pc = "returned" =>
          /\ wh_result.tag \in {"Ok", "Err"}
          /\ wh_result.tag = "Ok" <=> \A b \in Fields : BranchSucceeded(b)
          /\ (\E b \in Fields : BranchFailed(b)) => wh_result.tag = "Err"
          /\ wh_result.tag = "Ok" =>
                /\ DOMAIN wh_result.val = Fields
                /\ \A b \in Fields :
                      /\ wh_result.val[b] = net[b].reply.val
                      /\ wh_result.val[b].id = webhooks_raw[b].id

C1_Witness ==
    /\ wh_pc = "returned"
    /\ wh_result.tag = "Err"
    /\ BranchSucceeded("logs")
    /\ net["errors"].st = "replied" /\ net["errors"].reply.tag = "Err"
    /\ BranchSucceeded("dm_logs")
    /\ \A b \in Fields : parse_webhook(webhooks_raw[b]).some

\* the branches in the order the last poll visited them
Visit(k) == PollOrder(poll_start)[k]

\* C2: get_webhooks returns Ok only after all three branches completed with Ok;
\* a poll that meets a failed branch returns at once, whatever is still pending,
\* so while the join is suspended no branch holds an error; the error returned is
\* the one of the first failed branch the poll met, and of that branch alone.
C2_FirstErrorWins ==
    /\ (wh_pc = "returned" /\ wh_result.tag = "Ok") => \A b \in Fields : SeenOk(b)
    /\ wh_pc = "joining" => \A b \in Fields : ~SeenErr(b)
    /\ (wh_pc = "joining" /\ ~woken) =>
          \A b \in Fields :
             /\ fut[b].st # "unpolled"
             /\ fut[b].st = "awaiting" => net[b].st = "inflight"
    /\ (wh_pc = "returned" /\ wh_result.tag = "Err") =>
          /\ Cardinality({b \in Fields : SeenErr(b)}) = 1
          /\ \E k \in 1..3 :
                /\ SeenErr(Visit(k))
                /\ wh_result = fut[Visit(k)].out
                /\ wh_result.val.branch = Visit(k)
                /\ \A j \in 1..(k - 1) : ~BranchFailed(Visit(j))

C2_Witness ==
    /\ wh_pc = "returned"
    /\ wh_result.tag = "Err"
    /\ wh_result.val.branch = "errors"
    /\ BranchFailed("errors") /\ BranchFailed("dm_logs")
    /\ net["logs"].st = "inflight"

---------------------------------------------------------------------------
(* Properties of send_startup_message *)

NoMessage == startup_reply.tag = "Ok" /\ ~startup_reply.val.some

\* C8 as stated: when the execution succeeds without a created message,
\* send_startup_message returns an error value to its caller.
C8_AsStated ==
    NoMessage => (startup_pc = "returned" /\ startup_result.tag = "Err")

\* C8, amended: send_startup_message issues exactly one execution, on the logs
\* webhook with wait set; when the execution succeeds without a created message
\* the call panics and returns nothing; a returned message's id is the result;
\* an execution error is returned as it is.
C8_PanicsWithoutMessage ==
    /\ startup_pc = "idle" => posted = <<>>
    /\ startup_pc # "idle" =>
          posted = <<[webhook |-> wh_result.val.logs.id, wait |-> TRUE,
                      content |-> StartupContent]>>
    /\ startup_pc \in {"idle", "executing"} =>
          (startup_reply.tag = "NoValue" /\ startup_result.tag = "NoValue")
    /\ NoMessage => (startup_pc = "panicked" /\ startup_result.tag = "NoValue")
    /\ (startup_reply.tag = "Ok" /\ startup_reply.val.some) =>
          (startup_pc = "returned" /\ startup_result = Ok(startup_reply.val.val.id))
    /\ startup_reply.tag = "Err" =>
          (startup_pc = "returned" /\ startup_result = startup_reply)

C8_Witness ==
    /\ NoMessage
    /\ startup_pc = "panicked"
    /\ Len(posted) = 1

---------------------------------------------------------------------------
(* Properties of fetch_json and its callers *)

\* a translation-language fetch returned its map
LangsLoaded ==
    /\ fetch_call.kind = "translation_languages"
    /\ fetch_pc = "returned"
    /\ fetch_result.tag = "Ok"

\* the decoded (code, displayName) pairs
raw_langs == response.body.value

IsUpper(c) == \E n \in 1..26 : c = UpperCase[n]
SameLetter(a, b) == a = b \/ \E n \in 1..26 : {a, b} = {UpperCase[n], LowerCase[n]}

\* k is code written without upper-case letters
LowercasedFormOf(k, code) ==
    /\ Len(k) = Len(code)
    /\ \A i \in 1..Len(k) : ~IsUpper(k[i]) /\ SameLetter(k[i], code[i])

PairsFor(k) == {i \in 1..Len(raw_langs) : LowercasedFormOf(k, raw_langs[i][1])}

\* C7: every key of the translation-language map is the lowercased form of an
\* input code, every input code has its lowercased form as a key, and a key holds
\* the display name of the last pair in list order whose code lowercases to it.
C7_LowercasedLastWins ==
    LangsLoaded =>
        /\ \A k \in DOMAIN fetch_result.val :
              /\ PairsFor(k) # {}
              /\ \A i \in PairsFor(k) :
                    (\A j \in PairsFor(k) : j <= i) =>
                        fetch_result.val[k] = raw_langs[i][2]
        /\ \A i \in 1..Len(raw_langs) :
              \E k \in DOMAIN fetch_result.val : i \in PairsFor(k)

C7_Witness ==
    /\ LangsLoaded
    /\ raw_langs = << <<(<<"E", "N">>), "English">>, <<(<<"e", "n">>), "English (dup)">> >>
    /\ fetch_result.val = (<<"e", "n">> :> "English (dup)")

Received == response.status # 0
Successful(status) == status >= 200 /\ status <= 299
ClientOrServerError(status) == status >= 400 /\ status <= 599
BodyRead == response.body.shape # "none"

\* what C9 says of every status alike
C9_Common ==
    /\ fetch_pc = "called" => requests = <<>>
    /\ fetch_pc # "called" => (Len(requests) = 1 /\ requests[1].method = "GET")
    /\ (BodyRead /\ json(fetch_call.kind, response.body).tag = "Err") =>
          (fetch_result.tag = "Err" /\ fetch_result.val.kind = "Decode")
    /\ fetch_result.tag = "Err" => log = <<>>
    /\ fetch_pc # "returned" => (fetch_result.tag = "NoValue" /\ log = <<>>)
    /\ log # <<>> =>
          (fetch_result.tag = "Ok" /\ decodes = 1 /\ log = <<LoadedLine(fetch_call)>>)

\* C9 as stated: one GET and no retry; a response status that is not successful
\* yields an error before any decoding of the body; an undecodable body yields an
\* error; an error reaches the caller without the "Loaded ..." line, which is
\* printed only after a successful fetch.
C9_AsStated ==
    /\ C9_Common
    /\ (fetch_pc = "returned" /\ Received /\ ~Successful(response.status)) =>
          (fetch_result.tag = "Err" /\ decodes = 0)

\* C9, amended: as stated, but it is a client or server error status (400 to
\* 599) that yields an error before any decoding; a response of any other status
\* has its body handed to the decoder.
C9_ErrorStatusBeforeDecode ==
    /\ C9_Common
    /\ (Received /\ ClientOrServerError(response.status)) =>
          /\ fetch_pc = "returned"
          /\ fetch_result.tag = "Err" /\ fetch_result.val.kind = "Status"
          /\ decodes = 0 /\ ~BodyRead
    /\ (Received /\ ~ClientOrServerError(response.status)) =>
          /\ fetch_pc \in {"reading", "returned"}
          /\ fetch_pc = "returned" => (decodes = 1 /\ BodyRead)

C9_Witness ==
    /\ fetch_pc = "returned"
    /\ response.status = 404
    /\ fetch_result.tag = "Err"
    /\ decodes = 0
    /\ log = <<>>
    /\ Len(requests) = 1

===========================================================================
